---- MODULE Spec2Model ----
(***************************************************************************)
(* Model of src/detect_leakage.py: the leak-detection pipeline over HAR    *)
(* captures.                                                               *)
(*                                                                         *)
(* Python strings are sequences of one-character strings, so that          *)
(* slicing, strip, replace, join and f-string formatting are computed.     *)
(* Python values stored in the user-data records are tagged records        *)
(* [t, s]: t = "str" (s holds the characters), t = "none" (None) or        *)
(* t = "list" (a non-string JSON value).  Python dicts are sequences of    *)
(* [k, v] pairs with distinct keys, in insertion order.                    *)
(***************************************************************************)
EXTENDS Integers, Sequences, FiniteSets, TLC

VARIABLES
  pc,               \* position in the program
  err,              \* the exception that ended the run ("" when none)
  general,          \* user_data["general"]
  profiles,         \* user_data["profile"], keyed by country
  site_country_map, \* site -> country
  idx,              \* number of entries of os.listdir already visited
  site,             \* loop variable of the main loop
  profile,          \* profile selected for the current site
  search_strings,   \* result of get_search_strings for the current site
  har,              \* entries of the capture of the current site
  nEntries,         \* number of entries of the capture already processed
  timestamp,        \* timestamp of the last entry
  entry_url,        \* request URL of the last entry
  entry_url_domain, \* local variable of process_har_and_check_for_leaks
  all_leaks,        \* leak records of the last entry
  leaks,            \* per-site dict domain -> leak records
  final_results,    \* list of formatted site results
  file_written,     \* whether leak_results_file was written
  output,           \* what was dumped into leak_results_file
  lastCall,         \* arguments and result of a call of check_field
  calls,            \* history: the detector calls made for the last entry
  origin,           \* history: for each record of leaks, where it came from
  matched,          \* history: tuples of length 2..4 returned for this site
  produced,         \* history: sites whose capture yielded a leak record
  scanned           \* history: sites that have a capture file

vars == <<pc, err, general, profiles, site_country_map, idx, site, profile,
          search_strings, har, nEntries, timestamp, entry_url,
          entry_url_domain, all_leaks, leaks, final_results, file_written,
          output, lastCall, calls, origin, matched, produced, scanned>>

-----------------------------------------------------------------------------
(* Bounds *)

MaxMissing == 2   \* fields removed from a user-data record
NumSites   == 2   \* entries of os.listdir(base_folder)
MaxEntries == 3   \* entries of one capture
MaxCookies == 2   \* cookies attached to one entry
MaxResults == 2   \* match tuples returned by one detector call

-----------------------------------------------------------------------------
(* Python values and strings *)

Str(s)  == [t |-> "str", s |-> s]
None    == [t |-> "none", s |-> <<>>]
ListVal == [t |-> "list", s |-> <<>>]

IsStr(v) == v.t = "str"

Min(a, b) == IF a < b THEN a ELSE b

\* s[:n]
Prefix(s, n) == SubSeq(s, 1, Min(n, Len(s)))

\* s[n:]
Suffix(s, n) == SubSeq(s, n + 1, Len(s))

\* str.startswith
StartsWith(s, p) == Len(s) >= Len(p) /\ SubSeq(s, 1, Len(p)) = p

IsSpace(c) == c = " "

RECURSIVE LStrip(_)
LStrip(s) == IF s # <<>> /\ IsSpace(Head(s)) THEN LStrip(Tail(s)) ELSE s

RECURSIVE RStrip(_)
RStrip(s) ==
  IF s # <<>> /\ IsSpace(s[Len(s)]) THEN RStrip(SubSeq(s, 1, Len(s) - 1)) ELSE s

\* str.strip()
Strip(s) == RStrip(LStrip(s))

\* str.replace(" ", "")
RemoveSpaces(s) == SelectSeq(s, LAMBDA c : c # " ")

\* str.lower() on the characters that occur in header names
LowerChar(c) ==
  CASE c = "R" -> "r"
    [] c = "L" -> "l"
    [] c = "S" -> "s"
    [] c = "C" -> "c"
    [] OTHER   -> c

Lower(s) == [i \in 1..Len(s) |-> LowerChar(s[i])]

\* "-".join(parts)
RECURSIVE Join(_)
Join(parts) ==
  IF parts = <<>> THEN <<>>
  ELSE IF Len(parts) = 1 THEN parts[1]
  ELSE parts[1] \o <<"-">> \o Join(Tail(parts))

\* formatting of a value inside an f-string
Fmt(v) == IF v.t = "none" THEN <<"N", "o", "n", "e">> ELSE v.s

\* dict.get(key, default)
RECURSIVE DictGet(_, _, _)
DictGet(d, key, default) ==
  IF d = <<>> THEN default
  ELSE IF d[1].k = key THEN d[1].v
  ELSE DictGet(Tail(d), key, default)

HasKey(d, key) == \E i \in 1..Len(d) : d[i].k = key

-----------------------------------------------------------------------------
(* get_search_strings *)

general_exclusions ==
  {"date_of_birth", "credit_card_expiry_month", "credit_card_expiry_year",
   "credit_card_cvv", "email_prefix", "email_suffix"}

profile_exclusions == {"payment_options", "house_number"}

\* RemainingValues without the isinstance test
RECURSIVE RemainingValues_NoTypeCheck(_, _)
RemainingValues_NoTypeCheck(d, exclusions) ==
  IF d = <<>> THEN <<>>
  ELSE IF d[1].k \notin exclusions
       THEN <<d[1].v>> \o RemainingValues_NoTypeCheck(Tail(d), exclusions)
       ELSE RemainingValues_NoTypeCheck(Tail(d), exclusions)

\* for key, val in d.items(): if key not in exclusions and isinstance(val, str)
RECURSIVE RemainingValues(_, _)
RemainingValues(d, exclusions) ==
  IF d = <<>> THEN <<>>
  ELSE IF d[1].k \notin exclusions /\ IsStr(d[1].v)
       THEN <<d[1].v>> \o RemainingValues(Tail(d), exclusions)
       ELSE RemainingValues(Tail(d), exclusions)

\* the rules up to the credit-card number (lines 32-75), given that
\* international_format is a string
SpecialStrings(g, p, s) ==
  LET email_prefix == DictGet(g, "email_prefix", Str(<<>>))
      email_suffix == DictGet(g, "email_suffix", Str(<<>>))
      email_basic  == Str(Fmt(email_prefix) \o <<"@">> \o Fmt(email_suffix))
      email_variant ==
        Str(Fmt(email_prefix) \o <<"+">> \o s \o <<"@">> \o Fmt(email_suffix))
      first_name == DictGet(g, "first_name", Str(<<>>))
      last_name  == DictGet(g, "last_name", Str(<<>>))
      full_name  == Str(Strip(Fmt(first_name) \o <<" ">> \o Fmt(last_name)))
      phone_number == DictGet(p, "local_format", None)
      international_phone_number == DictGet(p, "international_format", None)
      international_phone_number_stripped ==
        Str(Suffix(international_phone_number.s, 1))
      country_code == DictGet(p, "country_code", None)
      zip_code   == DictGet(p, "zip_code", Str(<<>>))
      spaced_zip ==
        Str(Prefix(zip_code.s, 4) \o <<" ">> \o Suffix(zip_code.s, 4))
      street       == DictGet(p, "street", Str(<<>>))
      house_number == DictGet(p, "house_number", Str(<<>>))
      full_address == Str(Fmt(street) \o <<" ">> \o Fmt(house_number))
      month == DictGet(g, "credit_card_expiry_month", Str(<<>>))
      year  == DictGet(g, "credit_card_expiry_year", Str(<<>>))
      expiry_date == Str(Fmt(month) \o <<"/">> \o Fmt(year))
      credit_card_number == DictGet(g, "credit_card_number", Str(<<>>))
      cc_no_spaces == Str(RemoveSpaces(credit_card_number.s))
  IN  <<email_basic, email_variant, full_name, phone_number,
        international_phone_number, international_phone_number_stripped>>
      \o (IF country_code = Str(<<"+", "3", "1">>) THEN <<spaced_zip>> ELSE <<>>)
      \o <<full_address, expiry_date, cc_no_spaces>>

\* The result is [error, value]: error is "TypeError" when slicing None
\* (line 49), and value is then irrelevant.
get_search_strings(g, p, s) ==
  IF ~IsStr(DictGet(p, "international_format", None))
  THEN [error |-> "TypeError", value |-> <<>>]
  ELSE [error |-> "",
        value |-> SpecialStrings(g, p, s)
                  \o RemainingValues(g, general_exclusions)
                  \o RemainingValues(p, profile_exclusions)]

-----------------------------------------------------------------------------
(* Traffic records and the collaborators *)

\* tldextract.extract on the URLs that occur in the captures
extract(url) ==
  IF StartsWith(url, <<"h", ":", "/", "/", "a", ".", "t", ".", "c", "o">>)
  THEN [domain |-> <<"t">>, suffix |-> <<"c", "o">>]
  ELSE [domain |-> <<"u">>, suffix |-> <<"i", "o">>]

extract_domain(url) == extract(url).domain \o <<".">> \o extract(url).suffix

\* the header lists hold [name, value] with value a string
RECURSIVE extract_header_value(_, _)
extract_header_value(headers, name) ==
  IF headers = <<>> THEN None
  ELSE IF Lower(headers[1].name) = Lower(name) THEN Str(headers[1].value)
  ELSE extract_header_value(Tail(headers), name)

\* Truthy as "content is not None"
Truthy_NotNone(content) == IsStr(content)

\* "if content:" -- None and the empty string are falsy
Truthy(content) == IsStr(content) /\ content.s # <<>>

record_leak(encoding_or_hash, method, leaked_value, ts) ==
  [leaked_value     |-> leaked_value,
   encoding_or_hash |-> encoding_or_hash,
   leak_method      |-> method,
   timestamp        |-> ts]

\* ResultLeaks joining the whole tuple, the leaked value included
ResultLeaks_JoinAll(result, field, ts) ==
  IF Len(result) \in {2, 3, 4}
  THEN <<record_leak(Join(result), field, result[Len(result)], ts)>>
  ELSE <<>>

\* lines 125-136: the leak records of one match tuple
ResultLeaks(result, field, ts) ==
  IF Len(result) = 4
  THEN <<record_leak(Join(SubSeq(result, 1, Len(result) - 1)), field,
                     result[Len(result)], ts)>>
  ELSE IF Len(result) = 3
  THEN <<record_leak(Join(SubSeq(result, 1, Len(result) - 1)), field,
                     result[Len(result)], ts)>>
  ELSE IF Len(result) = 2
  THEN <<record_leak(result[1], field, result[2], ts)>>
  ELSE <<>>

\* lines 124-136: the loop over the results
RECURSIVE LeakDetails(_, _, _)
LeakDetails(results, field, ts) ==
  IF results = <<>> THEN <<>>
  ELSE ResultLeaks(results[1], field, ts) \o LeakDetails(Tail(results), field, ts)

\* check_field; "results" is what method(content) returns when it is called
check_field(field, content, results, ts) ==
  IF Truthy(content)
  THEN [invoked |-> TRUE,  leak_details |-> LeakDetails(results, field, ts)]
  ELSE [invoked |-> FALSE, leak_details |-> <<>>]

\* CookieStr dropping the value of the cookie
CookieStr_NoValue(cookie) == Str(Fmt(cookie.name) \o <<"=">>)

\* line 173
CookieStr(cookie) == Str(Fmt(cookie.name) \o <<"=">> \o Fmt(cookie.value))

\* lines 157-161; Unbound stands for the local variable not being assigned
Unbound == <<"<", "u", "n", "b", "o", "u", "n", "d", ">">>

BlobPrefix == <<"b", "l", "o", "b", ":">>

BlobUrl == <<"b", "l", "o", "b", "-", "u", "r", "l">>

EntryUrlDomain(url, previous) ==
  IF Truthy(url)
  THEN IF StartsWith(url.s, BlobPrefix) THEN BlobUrl ELSE extract_domain(url.s)
  ELSE previous

IndexOfKey(d, key) == CHOOSE i \in 1..Len(d) : d[i].k = key

\* AddEntryLeaks without the test of line 177
AddEntryLeaks_NoGuard(d, domain, new) ==
  IF ~HasKey(d, domain)
  THEN Append(d, [k |-> domain, v |-> new])
  ELSE [d EXCEPT ![IndexOfKey(d, domain)].v = @ \o new]

\* AddEntryLeaks putting the records of an entry before the earlier ones
AddEntryLeaks_Prepend(d, domain, new) ==
  IF new # <<>>
  THEN IF ~HasKey(d, domain)
       THEN Append(d, [k |-> domain, v |-> new])
       ELSE [d EXCEPT ![IndexOfKey(d, domain)].v = new \o @]
  ELSE d

\* AddEntryLeaks assigning the list of a known domain instead of extending it
AddEntryLeaks_Overwrite(d, domain, new) ==
  IF new # <<>>
  THEN IF ~HasKey(d, domain)
       THEN Append(d, [k |-> domain, v |-> new])
       ELSE [d EXCEPT ![IndexOfKey(d, domain)].v = new]
  ELSE d

\* lines 177-180, on a dict kept as a sequence of [k, v]
AddEntryLeaks(d, domain, new) ==
  IF new # <<>>
  THEN IF ~HasKey(d, domain)
       THEN Append(d, [k |-> domain, v |-> new])
       ELSE [d EXCEPT ![IndexOfKey(d, domain)].v = @ \o new]
  ELSE d

format_site_results(s, d) ==
  [website |-> s,
   leaks   |-> [i \in 1..Len(d) |-> [domain |-> d[i].k, data_leaked |-> d[i].v]]]

-----------------------------------------------------------------------------
(* The detector: LeakDetector.LeakDetector built by initialize_leak_detector *)

\* the value the detector finds in the captures: the first name
Leaked == <<"J", "o">>

T0 == <<>>
T1 == <<Leaked>>
T2 == <<<<"b", "6", "4">>, Leaked>>
T3 == <<<<"u", "r", "l">>, <<"m", "d", "5">>, Leaked>>
T4 == <<<<"b", "6", "4">>, <<"u", "r", "l">>, <<"s", "h", "a">>, Leaked>>
T5 == <<<<"b", "6", "4">>, <<"b", "6", "4">>, <<"u", "r", "l">>, <<"m", "d", "5">>, Leaked>>

Tuples == {T0, T1, T2, T3, T4, T5}

\* every list of at most MaxResults tuples
ResultLists == UNION {[1..n -> Tuples] : n \in 0..MaxResults}

\* sub occurs in s
Contains(s, sub) ==
  \E i \in 0..(Len(s) - Len(sub)) : SubSeq(s, i + 1, i + Len(sub)) = sub

\* what each check operation returns for a content that holds the value
MethodResults(method) ==
  CASE method = "check_url"             -> <<T2>>
    [] method = "check_referrer_str"    -> <<T5, T3, T1>>
    [] method = "check_post_data"       -> <<T4, T0, T2>>
    [] method = "check_location_header" -> <<T3>>
    [] method = "check_cookie_str"      -> <<T2, T4>>

\* leak_detector.<method>(content), for the detector built from strings
Detect(strings, method, content) ==
  IF (\E i \in 1..Len(strings) : strings[i] = Str(Leaked))
     /\ Contains(content, Leaked)
  THEN MethodResults(method)
  ELSE <<>>

-----------------------------------------------------------------------------
(* One entry of a capture: lines 150-180 *)

Now == <<"n", "o", "w">>

\* entry.get('startedDateTime', datetime.utcnow().isoformat() + 'Z')
Timestamp(e) == IF e.startedDateTime = None THEN Now ELSE e.startedDateTime.s

HReferer   == <<"R", "e", "f", "e", "r", "e", "r">>
HLocation  == <<"L", "o", "c", "a", "t", "i", "o", "n">>
HSetCookie == <<"S", "e", "t", "-", "C", "o", "o", "k", "i", "e">>

\* the calls of check_field of lines 165-174, in order: field, check
\* operation, content, and the position of the cookie (0 for the other fields)
FieldContents(e) ==
  <<[field |-> "url", method |-> "check_url", ck |-> 0,
     content |-> e.request.url],
    [field |-> "referrer", method |-> "check_referrer_str", ck |-> 0,
     content |-> extract_header_value(e.request.headers, HReferer)],
    [field |-> "postData", method |-> "check_post_data", ck |-> 0,
     content |-> e.request.postData.text],
    [field |-> "location", method |-> "check_location_header", ck |-> 0,
     content |-> extract_header_value(e.response.headers, HLocation)],
    [field |-> "setCookie", method |-> "check_cookie_str", ck |-> 0,
     content |-> extract_header_value(e.response.headers, HSetCookie)]>>
  \o [i \in 1..Len(e.cookies) |->
        [field |-> "Cookies", method |-> "check_cookie_str", ck |-> i,
         content |-> CookieStr(e.cookies[i])]]

\* the same calls with what the check operation returns and what check_field
\* makes of it
EntryChecks(e, strings) ==
  LET fc == FieldContents(e)
  IN  [i \in 1..Len(fc) |->
         LET results == IF IsStr(fc[i].content)
                        THEN Detect(strings, fc[i].method, fc[i].content.s)
                        ELSE <<>>
             r == check_field(fc[i].field, fc[i].content, results, Timestamp(e))
         IN  [field |-> fc[i].field, method |-> fc[i].method, ck |-> fc[i].ck,
              content |-> fc[i].content, invoked |-> r.invoked,
              results |-> IF r.invoked THEN results ELSE <<>>,
              leak_details |-> r.leak_details]]

\* all_leaks after the extend calls of lines 164-174
RECURSIVE AllLeaks(_)
AllLeaks(checks) ==
  IF checks = <<>> THEN <<>>
  ELSE checks[1].leak_details \o AllLeaks(Tail(checks))

\* for each record of all_leaks: the entry, its URL, the field and the cookie
RECURSIVE EntryOrigin(_, _, _)
EntryOrigin(checks, n, url) ==
  IF checks = <<>> THEN <<>>
  ELSE [j \in 1..Len(checks[1].leak_details) |->
          [entry |-> n, url |-> url, field |-> checks[1].field,
           ck |-> checks[1].ck]]
       \o EntryOrigin(Tail(checks), n, url)

HandledTuples(results) ==
  Cardinality({i \in 1..Len(results) : Len(results[i]) \in {2, 3, 4}})

RECURSIVE HandledInCalls(_)
HandledInCalls(checks) ==
  IF checks = <<>> THEN 0
  ELSE HandledTuples(checks[1].results) + HandledInCalls(Tail(checks))

-----------------------------------------------------------------------------
(* Inputs *)

SiteA == <<"a", ".", "n", "l">>
SiteB == <<"b", ".", "d", "e">>
SiteC == <<"c", ".", "f", "r">>
SiteD == <<"d", ".", "b", "e">>

AllSites == <<SiteA, SiteB, SiteC, SiteD>>

\* os.listdir(base_folder)
Listing == SubSeq(AllSites, 1, NumSites)

\* user_data["general"]; the fields read by the special rules hold strings
GeneralBase ==
  <<[k |-> "email_prefix",             v |-> Str(<<"j", "d">>)],
    [k |-> "date_of_birth",            v |-> Str(<<"1", "9", "9", "0">>)],
    [k |-> "first_name",               v |-> Str(<<"J", "o">>)],
    [k |-> "newsletter",               v |-> ListVal],
    [k |-> "last_name",                v |-> Str(<<"D", "o">>)],
    [k |-> "email_suffix",             v |-> Str(<<"x", ".", "n", "l">>)],
    [k |-> "credit_card_expiry_month", v |-> Str(<<"0", "7">>)],
    [k |-> "credit_card_number",       v |-> Str(<<"4", "1", " ", "1", "1">>)],
    [k |-> "credit_card_expiry_year",  v |-> Str(<<"2", "7">>)],
    [k |-> "credit_card_cvv",          v |-> Str(<<"1", "2", "3">>)],
    [k |-> "gender",                   v |-> Str(<<"f">>)]>>

ProfileFor(code) ==
  <<[k |-> "country_code",         v |-> Str(code)],
    [k |-> "payment_options",      v |-> ListVal],
    [k |-> "local_format",         v |-> Str(<<"0", "6", " ", "1">>)],
    [k |-> "house_number",         v |-> Str(<<"1">>)],
    [k |-> "international_format", v |-> Str(<<"+", "3", "1", "6", "1">>)],
    [k |-> "zip_code",             v |-> Str(<<"1", "2", "3", "4", "A", "B">>)],
    [k |-> "street",               v |-> Str(<<"D", "a", "m">>)],
    [k |-> "city",                 v |-> Str(<<"A", "m", "s">>)]>>

ProfileNL == ProfileFor(<<"+", "3", "1">>)
ProfileDE == ProfileFor(<<"+", "4", "9">>)

\* d without the pairs at the positions in D
RECURSIVE DropAt(_, _, _)
DropAt(d, D, i) ==
  IF i > Len(d) THEN <<>>
  ELSE (IF i \in D THEN <<>> ELSE <<d[i]>>) \o DropAt(d, D, i + 1)

Incomplete(d) ==
  {DropAt(d, D, 1) :
     D \in {X \in SUBSET (1..Len(d)) : Cardinality(X) <= MaxMissing}}

Generals == Incomplete(GeneralBase) \cup {<<>>}

Profiles == Incomplete(ProfileNL) \cup Incomplete(ProfileDE) \cup {<<>>}

TableBoth  == <<[k |-> "dutch", v |-> ProfileNL], [k |-> "german", v |-> ProfileDE]>>
TableDutch == <<[k |-> "dutch", v |-> ProfileNL]>>

MapBoth   == <<[k |-> SiteA, v |-> "dutch"], [k |-> SiteB, v |-> "german"]>>
MapGerman == <<[k |-> SiteB, v |-> "german"]>>

\* <<user_data["profile"], load_website_language_map(csv_file)>>
Configurations == {<<TableBoth, MapBoth>>, <<TableDutch, MapGerman>>}

UrlT    == <<"h", ":", "/", "/", "a", ".", "t", ".", "c", "o", "/", "p">>
UrlBlob == <<"b", "l", "o", "b", ":", "h", ":", "/", "/", "a", ".", "t", ".", "c", "o", "/", "1">>
UrlLeak == <<"h", ":", "/", "/", "a", ".", "t", ".", "c", "o", "/", "?", "J", "o">>

Urls == {None, Str(<<>>), Str(UrlT), Str(UrlBlob), Str(UrlLeak)}

HRefererLc   == <<"r", "e", "f", "e", "r", "e", "r">>
HAccept      == <<"A", "c", "c", "e", "p", "t">>
HSetCookieLc == <<"s", "e", "t", "-", "c", "o", "o", "k", "i", "e">>

RefLeak == <<"r", "?", "J", "o">>

RequestHeaders ==
  {<<>>,
   <<[name |-> HAccept, value |-> <<"x">>], [name |-> HRefererLc, value |-> <<"r">>]>>,
   <<[name |-> HReferer, value |-> <<>>], [name |-> HReferer, value |-> RefLeak]>>,
   <<[name |-> HRefererLc, value |-> RefLeak]>>}

PostLeak == <<"n", "=", "J", "o">>

PostTexts == {None, Str(<<>>), Str(<<"b">>), Str(PostLeak)}

LocLeak == <<"/", "J", "o">>
SetLeak == <<"c", "=", "J", "o">>

ResponseHeaders ==
  {<<>>,
   <<[name |-> HLocation, value |-> LocLeak]>>,
   <<[name |-> HSetCookieLc, value |-> SetLeak], [name |-> HLocation, value |-> <<>>]>>,
   <<[name |-> HLocation, value |-> <<>>], [name |-> HSetCookie, value |-> <<>>],
     [name |-> HLocation, value |-> LocLeak]>>,
   <<[name |-> HSetCookie, value |-> <<"s">>], [name |-> HLocation, value |-> <<"l">>]>>}

\* a cookie without a key has None there: cookie.get('name')
Cookie ==
  {[name |-> Str(<<"k">>), value |-> Str(<<"v">>)],
   [name |-> Str(<<"n">>), value |-> Str(<<>>)],
   [name |-> None, value |-> None],
   [name |-> Str(<<"k">>), value |-> Str(Leaked)]}

CookieLists == UNION {[1..n -> Cookie] : n \in 0..MaxCookies}

StartTimes == {None, Str(<<"t", "1">>)}

\* an entry without a key has None (or the empty list) there
Entry(t, u, rh, text, sh, cs) ==
  [startedDateTime |-> t,
   request  |-> [url |-> u, headers |-> rh, postData |-> [text |-> text]],
   response |-> [headers |-> sh],
   cookies  |-> cs]

\* the entries of the captures of one entry
Entries ==
  {Entry(t, u, rh, text, sh, cs) :
     t \in StartTimes, u \in Urls, rh \in RequestHeaders, text \in PostTexts,
     sh \in ResponseHeaders, cs \in CookieLists}

\* the entries of the longer captures
EClean ==
  Entry(Str(<<"t", "1">>), Str(UrlT), <<>>, Str(<<"b">>), <<>>,
        <<[name |-> Str(<<"k">>), value |-> Str(<<"v">>)]>>)
EUrlPost ==
  Entry(None, Str(UrlLeak), <<>>, Str(PostLeak), <<>>, <<>>)
ENoUrl ==
  Entry(Str(<<"t", "1">>), None, <<[name |-> HRefererLc, value |-> RefLeak]>>, None,
        <<>>, <<>>)
EEmptyUrl ==
  Entry(None, Str(<<>>), <<>>, Str(<<>>),
        <<[name |-> HLocation, value |-> LocLeak]>>, <<>>)
EBlob ==
  Entry(Str(<<"t", "1">>), Str(UrlBlob), <<>>, None,
        <<[name |-> HSetCookieLc, value |-> SetLeak]>>,
        <<[name |-> Str(<<"k">>), value |-> Str(<<"v">>)],
          [name |-> Str(<<"k">>), value |-> Str(Leaked)]>>)
ENoLeakNoUrl ==
  Entry(None, None, <<>>, None, <<>>, <<[name |-> None, value |-> None]>>)

CaptureEntries == {EClean, EUrlPost, ENoUrl, EEmptyUrl, EBlob, ENoLeakNoUrl}

\* the captures of at most MaxEntries entries
Captures == UNION {[1..n -> CaptureEntries] : n \in 0..MaxEntries}

\* the captures found in the site folders
SiteCaptures ==
  {<<>>, <<EClean, ENoLeakNoUrl>>, <<EClean, ENoUrl>>, <<EBlob, EUrlPost>>,
   <<ENoUrl>>}

NoCall ==
  [field |-> "", content |-> None, timestamp |-> <<>>, invoked |-> FALSE,
   results |-> <<>>, leak_details |-> <<>>]

-----------------------------------------------------------------------------
(* The pipeline: process_all_hars_and_check_for_leaks *)

Init ==
  /\ pc = "main"
  /\ err = ""
  /\ general = GeneralBase
  /\ \E c \in Configurations : profiles = c[1] /\ site_country_map = c[2]
  /\ idx = 0
  /\ site = <<>>
  /\ profile = <<>>
  /\ search_strings = <<>>
  /\ har = <<>>
  /\ nEntries = 0
  /\ timestamp = <<>>
  /\ entry_url = None
  /\ entry_url_domain = Unbound
  /\ all_leaks = <<>>
  /\ leaks = <<>>
  /\ final_results = <<>>
  /\ file_written = FALSE
  /\ output = <<>>
  /\ lastCall = NoCall
  /\ calls = <<>>
  /\ origin = <<>>
  /\ matched = 0
  /\ produced = {}
  /\ scanned = {}

inputs == <<general, profiles, site_country_map>>

entryVars == <<timestamp, entry_url, all_leaks, calls>>

siteVars == <<har, nEntries, entry_url_domain, leaks, origin, matched>>

outVars == <<final_results, file_written, output, produced>>

\* lines 189-193: an entry of the listing that is no directory with a capture
SkipSite ==
  /\ pc = "main"
  /\ idx < NumSites
  /\ site' = Listing[idx + 1]
  /\ idx' = idx + 1
  /\ UNCHANGED <<pc, err, inputs, profile, search_strings, entryVars, siteVars,
                 outVars, lastCall, scanned>>

\* lines 189-204 up to the call of process_har_and_check_for_leaks, and
\* lines 141-147 of that call
StartSite ==
  /\ pc = "main"
  /\ idx < NumSites
  /\ LET s       == Listing[idx + 1]
         country == DictGet(site_country_map, s, "dutch")
         p       == DictGet(profiles, country, <<>>)
         r       == get_search_strings(general, p, s)
     IN  /\ site' = s
         /\ profile' = p
         /\ scanned' = scanned \cup {s}
         /\ IF r.error # ""
            THEN /\ pc' = "error"
                 /\ err' = r.error
                 /\ UNCHANGED <<search_strings, siteVars>>
            ELSE /\ pc' = "entries"
                 /\ search_strings' = r.value
                 /\ har' \in SiteCaptures
                 /\ leaks' = <<>>
                 /\ origin' = <<>>
                 /\ nEntries' = 0
                 /\ entry_url_domain' = Unbound
                 /\ matched' = 0
                 /\ UNCHANGED err
  /\ UNCHANGED <<inputs, idx, entryVars, outVars, lastCall>>

\* lines 150-180: the next entry of the capture
ProcessEntry ==
  /\ pc = "entries"
  /\ nEntries < Len(har)
  /\ LET e      == har[nEntries + 1]
         domain == EntryUrlDomain(e.request.url, entry_url_domain)
         checks == EntryChecks(e, search_strings)
         found  == AllLeaks(checks)
     IN  /\ timestamp' = Timestamp(e)
         /\ entry_url' = e.request.url
         /\ entry_url_domain' = domain
         /\ all_leaks' = found
         /\ calls' = SelectSeq(checks, LAMBDA c : c.invoked)
         /\ matched' = matched + HandledInCalls(checks)
         /\ IF found # <<>> /\ domain = Unbound
            THEN /\ pc' = "error"
                 /\ err' = "UnboundLocalError"
                 /\ UNCHANGED <<leaks, origin>>
            ELSE /\ leaks' = AddEntryLeaks(leaks, domain, found)
                 /\ origin' = AddEntryLeaks(origin, domain,
                                 EntryOrigin(checks, nEntries + 1, e.request.url))
                 /\ UNCHANGED <<pc, err>>
  /\ nEntries' = nEntries + 1
  /\ UNCHANGED <<inputs, idx, site, profile, search_strings, har, outVars,
                 lastCall, scanned>>

\* line 181: the capture has no further entry
EndOfCapture ==
  /\ pc = "entries"
  /\ nEntries = Len(har)
  /\ pc' = "format"
  /\ UNCHANGED <<err, inputs, idx, site, profile, search_strings, entryVars,
                 siteVars, outVars, lastCall, scanned>>

\* lines 206-210
FormatSite ==
  /\ pc = "format"
  /\ final_results' = IF leaks # <<>>
                      THEN Append(final_results, format_site_results(site, leaks))
                      ELSE final_results
  /\ produced' = IF matched > 0 THEN produced \cup {site} ELSE produced
  /\ idx' = idx + 1
  /\ pc' = "main"
  /\ UNCHANGED <<err, inputs, site, profile, search_strings, entryVars,
                 siteVars, file_written, output, lastCall, scanned>>

\* lines 212-214
WriteResults ==
  /\ pc = "main"
  /\ idx = NumSites
  /\ IF final_results # <<>>
     THEN file_written' = TRUE /\ output' = final_results
     ELSE UNCHANGED <<file_written, output>>
  /\ pc' = "done"
  /\ UNCHANGED <<err, inputs, idx, site, profile, search_strings, entryVars,
                 siteVars, final_results, produced, lastCall, scanned>>

Next ==
  \/ SkipSite
  \/ StartSite
  \/ ProcessEntry
  \/ EndOfCapture
  \/ FormatSite
  \/ WriteResults

Spec == Init /\ [][Next]_vars

-----------------------------------------------------------------------------
(* process_har_and_check_for_leaks on its own, for the first site *)

\* the state at line 147, for the capture c
AtCapture(c) ==
  /\ pc = "entries"
  /\ err = ""
  /\ general = GeneralBase
  /\ profiles = TableBoth
  /\ site_country_map = MapBoth
  /\ idx = 0
  /\ site = SiteA
  /\ profile = ProfileNL
  /\ search_strings = get_search_strings(GeneralBase, ProfileNL, SiteA).value
  /\ har = c
  /\ nEntries = 0
  /\ timestamp = <<>>
  /\ entry_url = None
  /\ entry_url_domain = Unbound
  /\ all_leaks = <<>>
  /\ leaks = <<>>
  /\ final_results = <<>>
  /\ file_written = FALSE
  /\ output = <<>>
  /\ lastCall = NoCall
  /\ calls = <<>>
  /\ origin = <<>>
  /\ matched = 0
  /\ produced = {}
  /\ scanned = {SiteA}

NextCapture ==
  \/ ProcessEntry
  \/ EndOfCapture

\* every capture of at most MaxEntries of the entries CaptureEntries
InitCapture == \E c \in Captures : AtCapture(c)

SpecCapture == InitCapture /\ [][NextCapture]_vars

\* every capture of one entry
InitEntry == \E e \in Entries : AtCapture(<<e>>)

SpecEntry == InitEntry /\ [][NextCapture]_vars

-----------------------------------------------------------------------------
(* check_field on its own *)

Fields == {"url", "referrer", "postData", "location", "setCookie", "Cookies"}

Contents == {None, Str(<<>>), Str(<<"x">>)}

\* lastCall holds the arguments; results is what method(content) returns
InitCheck ==
  /\ pc = "call"
  /\ lastCall \in [field : Fields, content : Contents, timestamp : {Now, <<"t", "1">>},
                   invoked : {FALSE}, results : ResultLists,
                   leak_details : {<<>>}]
  /\ err = ""
  /\ general = <<>>
  /\ profiles = <<>>
  /\ site_country_map = <<>>
  /\ idx = 0
  /\ site = <<>>
  /\ profile = <<>>
  /\ search_strings = <<>>
  /\ har = <<>>
  /\ nEntries = 0
  /\ timestamp = <<>>
  /\ entry_url = None
  /\ entry_url_domain = Unbound
  /\ all_leaks = <<>>
  /\ leaks = <<>>
  /\ final_results = <<>>
  /\ file_written = FALSE
  /\ output = <<>>
  /\ calls = <<>>
  /\ origin = <<>>
  /\ matched = 0
  /\ produced = {}
  /\ scanned = {}

CallCheckField ==
  /\ pc = "call"
  /\ LET r == check_field(lastCall.field, lastCall.content, lastCall.results,
                          lastCall.timestamp)
     IN  lastCall' = [lastCall EXCEPT !.invoked = r.invoked,
                                      !.leak_details = r.leak_details]
  /\ pc' = "returned"
  /\ UNCHANGED <<err, inputs, idx, site, profile, search_strings, entryVars,
                 siteVars, outVars, scanned>>

NextCheck == CallCheckField

SpecCheck == InitCheck /\ [][NextCheck]_vars

-----------------------------------------------------------------------------
(* get_search_strings on its own, over the incomplete records *)

InitSearch ==
  /\ pc = "gen"
  /\ err = ""
  /\ general \in Generals
  /\ profile \in Profiles
  /\ site \in {SiteA, SiteB}
  /\ profiles = <<>>
  /\ site_country_map = <<>>
  /\ idx = 0
  /\ search_strings = <<>>
  /\ har = <<>>
  /\ nEntries = 0
  /\ timestamp = <<>>
  /\ entry_url = None
  /\ entry_url_domain = Unbound
  /\ all_leaks = <<>>
  /\ leaks = <<>>
  /\ final_results = <<>>
  /\ file_written = FALSE
  /\ output = <<>>
  /\ lastCall = NoCall
  /\ calls = <<>>
  /\ origin = <<>>
  /\ matched = 0
  /\ produced = {}
  /\ scanned = {}

GenerateSearchStrings ==
  /\ pc = "gen"
  /\ LET r == get_search_strings(general, profile, site)
     IN  IF r.error # ""
         THEN /\ pc' = "gen_error"
              /\ err' = r.error
              /\ UNCHANGED search_strings
         ELSE /\ pc' = "gen_done"
              /\ search_strings' = r.value
              /\ UNCHANGED err
  /\ UNCHANGED <<inputs, idx, site, profile, entryVars, siteVars, outVars,
                 lastCall, scanned>>

NextSearch == GenerateSearchStrings

SpecSearch == InitSearch /\ [][NextSearch]_vars

-----------------------------------------------------------------------------
(* Properties *)

\* C1: a site with a capture file never makes the run fail while its profile
\* is resolved and its search strings are generated, whether the site is
\* absent from the mapping or its country is absent from the profile table.
C1_NoErrorOnUnknown == ~(pc = "error" /\ err = "TypeError")

\* the domain key the request URL of a traffic record resolves to
C2_NoDomain == <<>>

C2_Resolve(url) ==
  IF url.t = "str" /\ url.s # <<>>
  THEN IF StartsWith(url.s, BlobPrefix) THEN BlobUrl ELSE extract_domain(url.s)
  ELSE C2_NoDomain

\* C2: every leak record stored under a domain key comes from a traffic
\* record whose own request URL resolves to that key, also for the records
\* that have no request URL.
C2_OwnDomain ==
  \A g \in 1..Len(origin) :
    \A k \in 1..Len(origin[g].v) :
      C2_Resolve(origin[g].v[k].url) = leaks[g].k

C3_Websites == {final_results[i].website : i \in 1..Len(final_results)}

\* C3: the sites of the final result list are exactly the sites whose capture
\* produced a leak record, no listed domain group is empty, and the output
\* file is written exactly when the final result list is not empty.
C3_FinalResults ==
  /\ C3_Websites = produced
  /\ Len(final_results) = Cardinality(produced)
  /\ \A i \in 1..Len(final_results) :
       \A g \in 1..Len(final_results[i].leaks) :
         final_results[i].leaks[g].data_leaked # <<>>
  /\ pc = "done" => (file_written <=> final_results # <<>>)
  /\ pc # "done" => ~file_written
  /\ file_written => output = final_results

C3_Witness ==
  /\ pc = "done"
  /\ file_written
  /\ Len(final_results) = 1
  /\ Cardinality(scanned) = 2

C4_Handled(results) == SelectSeq(results, LAMBDA t : Len(t) \in {2, 3, 4})

C4_Chain(t) ==
  IF Len(t) = 2 THEN t[1]
  ELSE IF Len(t) = 3 THEN t[1] \o <<"-">> \o t[2]
  ELSE t[1] \o <<"-">> \o t[2] \o <<"-">> \o t[3]

\* C4: for every match tuple of length 2, 3 or 4 a check returns, check_field
\* produces a leak record whose chain is the elements but the last joined
\* with "-", whose leaked_value is the last element, whose leak_method is the
\* field name and whose timestamp is the timestamp passed in.
C4_Records ==
  (pc = "returned" /\ lastCall.invoked) =>
    LET h == C4_Handled(lastCall.results)
    IN  /\ Len(lastCall.leak_details) = Len(h)
        /\ \A i \in 1..Len(h) :
             /\ lastCall.leak_details[i].encoding_or_hash = C4_Chain(h[i])
             /\ lastCall.leak_details[i].leaked_value = h[i][Len(h[i])]
             /\ lastCall.leak_details[i].leak_method = lastCall.field
             /\ lastCall.leak_details[i].timestamp = lastCall.timestamp

C4_Witness ==
  /\ pc = "returned"
  /\ lastCall.invoked
  /\ lastCall.results = <<T4, T3>>
  /\ lastCall.field = "postData"

C5_Format(v) == IF v.t = "none" THEN <<"N", "o", "n", "e">> ELSE v.s

\* the checks made for the "Cookies" field of the last traffic record
C5_CookieCalls == SelectSeq(calls, LAMBDA c : c.field = "Cookies")

\* the cookies attached to the last traffic record
C5_Cookies == har[nEntries].cookies

\* C5: the cookie-string checks made for the "Cookies" field of a traffic
\* record are one per attached cookie, in list order, each with the argument
\* "{name}={value}" of that one cookie.
C5_OneCallPerCookie ==
  nEntries > 0 =>
    /\ Len(C5_CookieCalls) = Len(C5_Cookies)
    /\ \A i \in 1..Len(C5_Cookies) :
         /\ C5_CookieCalls[i].method = "check_cookie_str"
         /\ C5_CookieCalls[i].content =
              Str(C5_Format(C5_Cookies[i].name) \o <<"=">>
                  \o C5_Format(C5_Cookies[i].value))

C5_Witness ==
  /\ nEntries = 1
  /\ Len(C5_Cookies) = 2
  /\ C5_Cookies[1] # C5_Cookies[2]
  /\ Len(C5_CookieCalls) = 2
  /\ Len(calls) > 2

C6_Empty(v) == v.t = "none" \/ v.s = <<>>

C6_Fields == {"url", "referrer", "postData", "location", "setCookie"}

\* the source value of a field of the traffic record e
C6_Source(e, field) ==
  CASE field = "url"       -> e.request.url
    [] field = "referrer"  -> extract_header_value(e.request.headers, HReferer)
    [] field = "postData"  -> e.request.postData.text
    [] field = "location"  -> extract_header_value(e.response.headers, HLocation)
    [] field = "setCookie" -> extract_header_value(e.response.headers, HSetCookie)

\* no check was made for the field, and no leak record produced for it
C6_Skipped(field, ck) ==
  /\ \A i \in 1..Len(calls) : ~(calls[i].field = field /\ calls[i].ck = ck)
  /\ ck = 0 => \A i \in 1..Len(all_leaks) : all_leaks[i].leak_method # field

C6_FieldsSkipped ==
  \A f \in C6_Fields :
    C6_Empty(C6_Source(har[nEntries], f)) => C6_Skipped(f, 0)

\* C6 as stated: for each checkable field, the attached cookies included, an
\* absent or empty source value means no check and no leak record.
C6_Original ==
  nEntries > 0 =>
    /\ C6_FieldsSkipped
    /\ \A i \in 1..Len(C5_Cookies) :
         (C6_Empty(C5_Cookies[i].name) /\ C6_Empty(C5_Cookies[i].value))
           => C6_Skipped("Cookies", i)

\* C6 amended: for url, referrer, postData, location and setCookie an absent
\* or empty source value means no check and no leak record; every attached
\* cookie is checked, whatever its name and value.
C6_Amended ==
  nEntries > 0 =>
    /\ C6_FieldsSkipped
    /\ \A i \in 1..Len(C5_Cookies) : ~C6_Skipped("Cookies", i)

C6_Witness ==
  /\ nEntries = 1
  /\ C6_Source(har[1], "url") = None
  /\ C6_Source(har[1], "location") = Str(<<>>)
  /\ C6_Source(har[1], "postData") = Str(<<>>)
  /\ C6_Source(har[1], "setCookie") = Str(SetLeak)
  /\ \E i \in 1..Len(C5_Cookies) : C5_Cookies[i].name = None
  /\ \E i \in 1..Len(calls) : calls[i].field = "setCookie"

\* C7: get_search_strings returns a collection in which every element is a
\* string, also for records that lack source fields of the special rules.
C7_AllStrings ==
  pc \in {"gen_done", "gen_error"} =>
    /\ pc = "gen_done"
    /\ \A i \in 1..Len(search_strings) : search_strings[i].t = "str"

C8_Values(d, excluded) ==
  LET sel == SelectSeq(d, LAMBDA e : e.k \notin excluded /\ e.v.t = "str")
  IN  [i \in 1..Len(sel) |-> sel[i].v]

C8_Special ==
  IF HasKey(profile, "country_code")
     /\ DictGet(profile, "country_code", None) = Str(<<"+", "3", "1">>)
  THEN 10 ELSE 9

C8_Tail == SubSeq(search_strings, C8_Special + 1, Len(search_strings))

C8_NonDistinctive ==
  {"date_of_birth", "credit_card_expiry_month", "credit_card_expiry_year",
   "credit_card_cvv", "email_prefix", "email_suffix"}

C8_Consumed ==
  {"email_prefix", "email_suffix", "first_name", "last_name",
   "credit_card_expiry_month", "credit_card_expiry_year", "credit_card_number"}

C8_ProfileExcluded == {"payment_options", "house_number"}

\* C8 as stated: the strings after the special rules are the string values of
\* general whose key is neither consumed by a special rule nor one of the six
\* non-distinctive fields, then the string values of profile whose key is
\* neither payment_options nor house_number, in record order.
C8_Original ==
  pc = "gen_done" =>
    C8_Tail = C8_Values(general, C8_Consumed \cup C8_NonDistinctive)
              \o C8_Values(profile, C8_ProfileExcluded)

\* C8 amended: the strings after the special rules are the string values of
\* general whose key is not one of the six non-distinctive fields (first_name,
\* last_name and credit_card_number are appended although special rules read
\* them), then the string values of profile whose key is neither
\* payment_options nor house_number, in record order.
C8_Amended ==
  pc = "gen_done" =>
    C8_Tail = C8_Values(general, C8_NonDistinctive)
              \o C8_Values(profile, C8_ProfileExcluded)

C8_Witness ==
  /\ pc = "gen_done"
  /\ HasKey(general, "first_name")
  /\ HasKey(general, "newsletter")
  /\ HasKey(general, "date_of_birth")
  /\ HasKey(profile, "payment_options")
  /\ HasKey(profile, "house_number")
  /\ C8_Special = 10

C9_Rank(field) ==
  CASE field = "url"       -> 1
    [] field = "referrer"  -> 2
    [] field = "postData"  -> 3
    [] field = "location"  -> 4
    [] field = "setCookie" -> 5
    [] field = "Cookies"   -> 6

C9_Before(a, b) ==
  \/ a.entry < b.entry
  \/ /\ a.entry = b.entry
     /\ \/ C9_Rank(a.field) < C9_Rank(b.field)
        \/ a.field = b.field /\ a.ck <= b.ck

C9_Formatted == format_site_results(site, leaks).leaks

\* C9: in a domain's list the leak records of an earlier traffic record come
\* before those of a later one, the records of one traffic record are in the
\* order url, referrer, postData, location, setCookie, cookies in list order,
\* and the formatted list has the domain groups in the order in which each
\* domain first received a leak.
C9_Order ==
  /\ Len(leaks) = Len(origin)
  /\ Len(C9_Formatted) = Len(origin)
  /\ \A g \in 1..Len(origin) :
       /\ C9_Formatted[g].domain = origin[g].k
       /\ Len(C9_Formatted[g].data_leaked) = Len(origin[g].v)
       /\ \A p \in 1..Len(origin[g].v) :
            C9_Formatted[g].data_leaked[p].leak_method = origin[g].v[p].field
       /\ \A p, q \in 1..Len(origin[g].v) :
            p < q => C9_Before(origin[g].v[p], origin[g].v[q])
  /\ \A g, h \in 1..Len(origin) :
       g < h => origin[g].v[1].entry < origin[h].v[1].entry

C9_Witness ==
  /\ pc = "format"
  /\ Len(origin) = 2
  /\ \E p, q \in 1..Len(origin[1].v) :
       origin[1].v[p].entry = 1 /\ origin[1].v[q].entry = 3
  /\ origin[2].v[1].entry = 2
  /\ \E p, q \in 1..Len(origin[1].v) :
       /\ origin[1].v[p].entry = origin[1].v[q].entry
       /\ origin[1].v[p].field # origin[1].v[q].field

RECURSIVE C10_Total(_)
C10_Total(d) == IF d = <<>> THEN 0 ELSE Len(d[1].v) + C10_Total(Tail(d))

C10_Other(results) ==
  Cardinality({i \in 1..Len(results) : Len(results[i]) \notin {2, 3, 4}})

\* C10: once a capture is processed, the leak records of all its domain
\* groups are as many as the match tuples of length 2, 3 or 4 the checks
\* returned; a tuple of another length yields no leak record.
C10_NoLossNoDuplicate ==
  /\ pc = "format" => C10_Total(leaks) = matched
  /\ \A i \in 1..Len(calls) :
       Len(calls[i].leak_details) =
         Len(calls[i].results) - C10_Other(calls[i].results)

C10_Witness ==
  /\ pc = "format"
  /\ nEntries = 3
  /\ Len(leaks) = 2
  /\ matched >= 5
  /\ \E i \in 1..Len(calls) : C10_Other(calls[i].results) > 0

====
